---- MODULE Spec2Model ----
(***************************************************************************)
(* Model of ripgrep-all's CachingWriter (src/src/caching_writer.rs) and    *)
(* of the adapter selection of src/src/adapters.rs.                        *)
(*                                                                         *)
(* CachingWriter: a Write decorator that forwards to `out` and feeds a     *)
(* zstd encoder writing into a Vec<u8>, dropping the encoder once the Vec  *)
(* grows beyond max_cache_size.  The encoder is an external library; it is *)
(* modelled as a streaming run-length coder: a concrete, lossless,         *)
(* buffering compressor whose output Vec only grows, lags behind its        *)
(* input, and is completed by finish().                                    *)
(***************************************************************************)
EXTENDS Integers, Sequences, FiniteSets, TLC

\* ------------------------------------------------------------------ bounds
MaxCalls == 3       \* write/flush calls made on one CachingWriter
MaxBuf == 2         \* longest buffer handed to one write call
MaxOut == 4         \* most bytes the downstream writer is offered in one run
MaxCache == 3       \* largest max_cache_size tried
MaxTokens == 3      \* longest adapter_names slice tried
MaxMatchers == 2    \* longest fast_matchers / slow_matchers list tried
MaxGetCalls == 3    \* get_matchers calls made on one AdapterMeta

Bytes == {1, 2}                \* the byte values written
None == <<>>                   \* Option::None
Some(x) == <<x>>               \* Option::Some(x)
EndMark == <<0, 0>>            \* the cell that closes a finished frame

VARIABLES
    max_cache_size,  \* CachingWriter.max_cache_size
    zstd_writer,     \* CachingWriter.zstd_writer: None or the encoder
    out,             \* CachingWriter.out: the bytes the downstream writer took
    out_flushes,     \* number of flush calls the downstream writer received
    bytes_written,   \* CachingWriter.bytes_written
    pc,              \* "open" until finish(self) has consumed the writer
    result,          \* what finish returned
    last,            \* the last write/flush call and what it returned
    accepted,        \* history: concatenation of the bytes write calls reported accepted
    fed,             \* history: number of bytes ever fed to an encoder
    erred,           \* history: some call returned Err
    torn,            \* history: a write returned Err after `out` took part of its bytes
    flushed,         \* history: a live encoder was flushed
    overflowed,      \* history: a write saw compressed_len > max_cache_size
    calls,           \* number of write/flush calls made so far
    adapter_names,   \* get_adapters_filtered: the argument
    i,               \* get_adapters_filtered: loop index (0-based, as enumerate())
    adapters,        \* get_adapters_filtered: the working list
    subtractive,     \* get_adapters_filtered: the mode flag
    adapters_map,    \* get_adapters_filtered: name -> adapter lookup
    sel_pc,          \* position in get_adapters_filtered
    sel_result,      \* the Fallible the call returned
    fast_matchers,   \* AdapterMeta.fast_matchers
    slow_matchers,   \* AdapterMeta.slow_matchers: None or Some(list)
    gm_slow,         \* get_matchers: the argument of the last call
    gm_ret,          \* get_matchers: the items the last call's iterator yielded
    gm_first,        \* history: what the first call with each argument yielded
    gm_calls         \* number of get_matchers calls made so far

cwvars == <<max_cache_size, zstd_writer, out, out_flushes, bytes_written, pc,
            result, last, accepted, fed, erred, torn, flushed, overflowed, calls>>
selvars == <<adapter_names, i, adapters, subtractive, adapters_map, sel_pc, sel_result>>
gmvars == <<fast_matchers, slow_matchers, gm_slow, gm_ret, gm_first, gm_calls>>
vars == <<cwvars, selvars, gmvars>>

\* ------------------------------------------------------------- sequences
SeqsUpTo(S, n) == UNION {[1..k -> S] : k \in 0..n}
Take(s, n) == SubSeq(s, 1, n)
Drop(s, n) == SubSeq(s, n + 1, Len(s))

\* ------------------------------------------- the encoder (zstd, modelled)
\* An encoder is [vec, pend, zin]: vec is the Vec<u8> it writes into
\* (get_ref()), a sequence of cells <<byte, count>>, one per finished run;
\* pend is the run it still buffers (<<>> or <<byte, count>>); zin the bytes
\* it has consumed.  The compressed size is the number of cells.
NewEncoder == [vec |-> <<>>, pend |-> <<>>, zin |-> <<>>]

EncodeByte(e, b) ==
    IF e.pend = <<>> THEN [e EXCEPT !.pend = <<b, 1>>, !.zin = Append(@, b)]
    ELSE IF e.pend[1] = b
         THEN [e EXCEPT !.pend = <<b, e.pend[2] + 1>>, !.zin = Append(@, b)]
         ELSE [e EXCEPT !.vec = Append(@, e.pend), !.pend = <<b, 1>>, !.zin = Append(@, b)]

RECURSIVE EncoderWrite(_, _)
EncoderWrite(e, s) ==
    IF s = <<>> THEN e ELSE EncoderWrite(EncodeByte(e, Head(s)), Tail(s))

\* the cells the buffered run adds to the Vec when it is written out
Pending(e) == IF e.pend = <<>> THEN <<>> ELSE <<e.pend>>

EncoderFlush(e) == [e EXCEPT !.vec = @ \o Pending(e), !.pend = <<>>]

EncoderFinish(e) == (e.vec \o Pending(e)) \o <<EndMark>>

\* one-shot compression of a whole byte sequence
Compress(s) == EncoderFinish(EncoderWrite(NewEncoder, s))

RECURSIVE Repeat(_, _)
Repeat(b, n) == IF n = 0 THEN <<>> ELSE <<b>> \o Repeat(b, n - 1)

RECURSIVE Expand(_)
Expand(v) ==
    IF v = <<>> THEN <<>> ELSE Repeat(v[1][1], v[1][2]) \o Expand(Tail(v))

\* decompression: only a finished frame (run cells followed by the end
\* mark) decodes; anything else yields <<-1>>, which is no byte sequence
Decompress(art) ==
    IF Len(art) = 0 \/ art[Len(art)] # EndMark
    THEN <<-1>>
    ELSE Expand(Take(art, Len(art) - 1))

\* ------------------------------------------------------- CachingWriter
\* line 45: compressed_len > self.max_cache_size
OverBudget(compressed_len, max) == compressed_len > max

\* (variant: the whole buffer is forwarded, whatever the encoder took)
ForwardedWhole(buf, wrote) == buf

\* line 50: &buf[0..wrote]
Forwarded(buf, wrote) == Take(buf, wrote)

\* (variant: the total is overwritten instead of accumulated)
AddWrittenAssign(total, written_bytes) == written_bytes

\* (variant: the total counts calls, not bytes)
AddWrittenCalls(total, written_bytes) == total + 1

\* line 55: self.bytes_written += written_bytes as u64
AddWritten(total, written_bytes) == total + written_bytes

\* (variant: the budget is exclusive)
WithinBudgetStrict(res, max) == Len(res) < max

\* (variant: the length check is missing)
WithinBudgetAlways(res, max) == TRUE

\* line 31: res.len() <= self.max_cache_size
WithinBudget(res, max) == Len(res) <= max

\* (variant: a flush starts a fresh encoder when there is none)
FlushedWriterRestart(zw) ==
    IF zw = None THEN Some(NewEncoder) ELSE Some(EncoderFlush(zw[1]))

\* (variant: the encoder is left unflushed)
FlushedWriterSkip(zw) == zw

\* lines 60-62: if let Some(writer) = self.zstd_writer.as_mut() { writer.flush() }
FlushedWriter(zw) ==
    IF zw = None THEN None ELSE Some(EncoderFlush(zw[1]))

\* the counts an encoder's write may report for buf (it consumes at least
\* one byte of a non-empty buffer, and possibly not all of it)
EncoderAccepts(buf) == IF buf = <<>> THEN {0} ELSE 1..Len(buf)

\* the counts the downstream writer's write may report for buf
OutAccepts(buf) == 0..Len(buf)

\* a call as the caller saw it: the operation, the length of the buffer it
\* passed, and what came back; fail records which collaborator failed in it
\* ("none", "encoder" or "out")
Called(op, buf, ret, fail) ==
    [op |-> op, len |-> Len(buf), ret |-> ret, fail |-> fail]

\* (variant: the total is updated before the bytes are forwarded)
TotalAfterErrCounted(total, wrote) == total + wrote

\* line 54: the ? returns before line 55 has run
TotalAfterErr(total, wrote) == total


InitCW ==
    /\ max_cache_size \in 0..MaxCache
    /\ zstd_writer = Some(NewEncoder)
    /\ out = <<>>
    /\ out_flushes = 0
    /\ bytes_written = 0
    /\ pc = "open"
    /\ result = <<"none">>
    /\ last = Called("new", <<>>, <<"Ok", 0>>, "none")
    /\ accepted = <<>>
    /\ fed = 0
    /\ erred = FALSE
    /\ torn = FALSE
    /\ flushed = FALSE
    /\ overflowed = FALSE
    /\ calls = 0

\* a write call that returns Err after the encoder took `wrote` bytes:
\* bytes_written is not touched (line 54's ?)
WriteErr(buf, fail, wrote) ==
    /\ last' = Called("write", buf, <<"Err">>, fail)
    /\ erred' = TRUE
    /\ bytes_written' = TotalAfterErr(bytes_written, wrote)
    /\ UNCHANGED accepted

\* a write call that returns Ok(n)
WriteOk(buf, n) ==
    /\ last' = Called("write", buf, <<"Ok", n>>, "none")
    /\ bytes_written' = AddWritten(bytes_written, n)
    /\ accepted' = accepted \o Take(buf, n)
    /\ UNCHANGED erred

\* lines 41-52: write with a live encoder
WriteSome(buf) ==
    /\ zstd_writer # None
    /\ \/ \* line 42: writer.write(buf)? fails
          /\ WriteErr(buf, "encoder", 0)
          /\ UNCHANGED <<zstd_writer, out, fed, torn, overflowed>>
       \/ \E wrote \in EncoderAccepts(buf) :
            LET e == EncoderWrite(zstd_writer[1], Take(buf, wrote))
                compressed_len == Len(e.vec)
                drop == OverBudget(compressed_len, max_cache_size)
                data == Forwarded(buf, wrote)
            IN /\ fed' = fed + wrote
               /\ overflowed' = (overflowed \/ drop)
               /\ zstd_writer' = IF drop THEN None ELSE Some(e)
               /\ \/ \* line 48: take().unwrap().finish()? fails
                     /\ drop
                     /\ WriteErr(buf, "encoder", wrote)
                     /\ UNCHANGED <<out, torn>>
                  \/ \* line 50: write_all fails after out took k bytes
                     \E k \in 0..(Len(data) - 1) :
                        /\ out' = out \o Take(data, k)
                        /\ torn' = (torn \/ k > 0)
                        /\ WriteErr(buf, "out", wrote)
                  \/ \* line 50-51: write_all succeeds, Ok(wrote)
                     /\ out' = out \o data
                     /\ WriteOk(buf, wrote)
                     /\ UNCHANGED torn

\* line 53: write without an encoder
WriteNone(buf) ==
    /\ zstd_writer = None
    /\ UNCHANGED <<zstd_writer, fed, torn, overflowed>>
    /\ \/ /\ WriteErr(buf, "out", 0)
          /\ UNCHANGED out
       \/ \E n \in OutAccepts(buf) :
            /\ out' = out \o Take(buf, n)
            /\ WriteOk(buf, n)

Write ==
    /\ pc = "open"
    /\ calls < MaxCalls
    /\ calls' = calls + 1
    /\ \E buf \in SeqsUpTo(Bytes, MaxBuf) :
          /\ Len(out) + Len(buf) <= MaxOut
          /\ (WriteSome(buf) \/ WriteNone(buf))
    /\ UNCHANGED <<max_cache_size, out_flushes, pc, result, flushed, selvars, gmvars>>

\* lines 58-64
Flush ==
    /\ pc = "open"
    /\ calls < MaxCalls
    /\ calls' = calls + 1
    /\ \/ \* line 61: writer.flush()? fails
          /\ zstd_writer # None
          /\ last' = Called("flush", <<>>, <<"Err">>, "encoder")
          /\ erred' = TRUE
          /\ UNCHANGED <<zstd_writer, out_flushes, flushed>>
       \/ /\ zstd_writer' = FlushedWriter(zstd_writer)
          /\ flushed' = (flushed \/ zstd_writer # None)
          /\ out_flushes' = out_flushes + 1
          /\ \/ \* line 63: self.out.flush() fails
                /\ last' = Called("flush", <<>>, <<"Err">>, "out")
                /\ erred' = TRUE
             \/ /\ last' = Called("flush", <<>>, <<"Ok", 0>>, "none")
                /\ UNCHANGED erred
    /\ UNCHANGED <<max_cache_size, out, bytes_written, pc, result, accepted,
                   fed, torn, overflowed, selvars, gmvars>>

\* lines 28-36
Finish ==
    /\ pc = "open"
    /\ pc' = "done"
    /\ \/ \* line 30: writer.finish()? fails
          /\ zstd_writer # None
          /\ result' = <<"Err">>
          /\ erred' = TRUE
       \/ /\ result' =
                IF zstd_writer # None
                   /\ WithinBudget(EncoderFinish(zstd_writer[1]), max_cache_size)
                THEN <<"Ok", bytes_written, Some(EncoderFinish(zstd_writer[1]))>>
                ELSE <<"Ok", bytes_written, None>>
          /\ UNCHANGED erred
    /\ UNCHANGED <<max_cache_size, zstd_writer, out, out_flushes, bytes_written,
                   last, accepted, fed, torn, flushed, overflowed, calls, selvars, gmvars>>

\* ------------------------------------------------------------- adapters
\* An adapter is identified by its type; a token of adapter_names is a
\* sequence of symbols: a sign character ("-" or "+") or a block of name
\* characters.  <<"-", "zip">> is the string "-zip".
def_enabled_adapters ==
    <<"FFmpegAdapter", "PandocAdapter", "PopplerAdapter",
      "ZipAdapter", "TarAdapter", "SqliteAdapter">>
def_disabled_adapters == <<>>

\* get_adapters(): (enabled, disabled)
get_adapters == <<def_enabled_adapters, def_disabled_adapters>>

\* a.metadata().name
NameOf(a) ==
    CASE a = "FFmpegAdapter" -> "ffmpeg"
      [] a = "PandocAdapter" -> "pandoc"
      [] a = "PopplerAdapter" -> "poppler"
      [] a = "ZipAdapter" -> "zip"
      [] a = "TarAdapter" -> "tar"
      [] a = "SqliteAdapter" -> "sqlite"

TokenNames == {"ffmpeg", "zip", "sqlite", "nope"}
Signs == {"-", "+"}
Tokens ==
    {<<>>} \cup {<<sg>> : sg \in Signs} \cup {<<n>> : n \in TokenNames}
    \cup {<<sg, n>> : sg \in Signs, n \in TokenNames}

\* name.starts_with(c)
StartsWith(name, c) == Len(name) > 0 /\ name[1] = c

\* &name[1..]
StripFirst(name) == Tail(name)

\* a.metadata().name == name
HasName(a, name) == name = <<NameOf(a)>>

\* lines 100-104: the HashMap collected from enabled.chain(disabled); a later
\* entry replaces an earlier one of the same name
BuildMap(list) ==
    [n \in {NameOf(list[k]) : k \in 1..Len(list)} |->
        list[CHOOSE k \in 1..Len(list) :
                /\ NameOf(list[k]) = n
                /\ \A m \in (k + 1)..Len(list) : NameOf(list[m]) # n]]

\* (variant: a leading '+' is dropped from every looked-up name)
MapGetUnsigned(map, name) ==
    LET bare == IF StartsWith(name, "+") THEN Tail(name) ELSE name
    IN IF Len(bare) = 1 /\ bare[1] \in DOMAIN map THEN Some(map[bare[1]]) ELSE None

\* adapters_map.get(name)
MapGet(map, name) ==
    IF Len(name) = 1 /\ name[1] \in DOMAIN map THEN Some(map[name[1]]) ELSE None

\* (variant: a name that is not found selects the first element)
PositionOrFirst(list, name) ==
    IF \E k \in 1..Len(list) : HasName(list[k], name)
    THEN Some(CHOOSE k \in 1..Len(list) :
                /\ HasName(list[k], name)
                /\ \A m \in 1..(k - 1) : ~HasName(list[m], name))
    ELSE Some(1)

\* lines 118-120: adapters.iter().position(|a| a.metadata().name == name)
Position(list, name) ==
    IF \E k \in 1..Len(list) : HasName(list[k], name)
    THEN Some(CHOOSE k \in 1..Len(list) :
                /\ HasName(list[k], name)
                /\ \A m \in 1..(k - 1) : ~HasName(list[m], name))
    ELSE None

\* (variant: the element after the found one is removed)
RemoveNext(list, inx) == Take(list, inx) \o Drop(list, inx + 1)

\* line 122: adapters.remove(inx)
Remove(list, inx) == Take(list, inx - 1) \o Drop(list, inx)

\* (variant: an adapter already in the list is not pushed again)
PushDedup(list, a) ==
    IF \E k \in 1..Len(list) : list[k] = a THEN list ELSE Append(list, a)

\* line 124: adapters.push(a)
Push(list, a) == Append(list, a)

\* (variant: only the '-' branch seeds the list with the defaults)
SeedSubOnly(sub, add, cur) == IF sub THEN get_adapters[1] ELSE cur

\* lines 112 / 115: adapters = def_enabled_adapters.clone()
Seed(sub, add, cur) == IF sub \/ add THEN get_adapters[1] ELSE cur

\* (variant: a leading '-' is honoured on every token)
IsSubtractiveSignAny(idx, name) == StartsWith(name, "-")

\* (variant: the two lists of get_adapters are taken in the wrong order)
DefaultListSwapped(ga) == ga[2]

\* lines 98 / 134: def_enabled_adapters, the first list of get_adapters()
DefaultList(ga) == ga[1]

\* line 109 / 113: which first-token sign selects a mode
IsSubtractiveSign(idx, name) == idx = 0 /\ StartsWith(name, "-")
IsAdditiveSign(idx, name) == idx = 0 /\ StartsWith(name, "+")

InitSel ==
    /\ adapter_names \in SeqsUpTo(Tokens, MaxTokens)
    /\ i = 0
    /\ adapters = <<>>
    /\ subtractive = FALSE
    /\ adapters_map = <<>>
    /\ sel_pc = "start"
    /\ sel_result = <<"none">>

\* lines 98-106
SelBegin ==
    /\ sel_pc = "start"
    /\ IF adapter_names # <<>>
       THEN /\ adapters_map' = BuildMap(get_adapters[1] \o get_adapters[2])
            /\ adapters' = <<>>
            /\ sel_pc' = "loop"
       ELSE /\ adapters' = DefaultList(get_adapters)
            /\ sel_pc' = "return"
            /\ UNCHANGED adapters_map
    /\ UNCHANGED <<adapter_names, i, subtractive, sel_result, cwvars, gmvars>>

\* lines 107-131: one iteration of the loop
SelIterate ==
    /\ sel_pc = "loop"
    /\ LET raw == adapter_names[i + 1]
           sub == IsSubtractiveSign(i, raw)
           add == ~sub /\ IsAdditiveSign(i, raw)
           name == IF sub \/ add THEN StripFirst(raw) ELSE raw
           seeded == Seed(sub, add, adapters)
           subtr == IF sub THEN TRUE ELSE subtractive
           inx == Position(seeded, name)
           found == MapGet(adapters_map, name)
       IN /\ subtractive' = subtr
          /\ IF subtr
             THEN IF inx = None
                  THEN /\ sel_result' = <<"Err", "Could not remove: Not in list", name>>
                       /\ sel_pc' = "done"
                       /\ adapters' = seeded
                       /\ UNCHANGED i
                  ELSE /\ adapters' = Remove(seeded, inx[1])
                       /\ i' = i + 1
                       /\ sel_pc' = IF i + 1 = Len(adapter_names) THEN "return" ELSE "loop"
                       /\ UNCHANGED sel_result
             ELSE IF found = None
                  THEN /\ sel_result' = <<"Err", "Unknown adapter", name>>
                       /\ sel_pc' = "done"
                       /\ adapters' = seeded
                       /\ UNCHANGED i
                  ELSE /\ adapters' = Push(seeded, found[1])
                       /\ i' = i + 1
                       /\ sel_pc' = IF i + 1 = Len(adapter_names) THEN "return" ELSE "loop"
                       /\ UNCHANGED sel_result
    /\ UNCHANGED <<adapter_names, adapters_map, cwvars, gmvars>>

\* lines 132-144
SelReturn ==
    /\ sel_pc = "return"
    /\ sel_result' = <<"Ok", adapters>>
    /\ sel_pc' = "done"
    /\ UNCHANGED <<adapter_names, i, adapters, subtractive, adapters_map, cwvars, gmvars>>

\* ------------------------------------------------------------- matchers
\* A FastMatcher is a tuple such as <<"FileExtension", "pdf">>; a
\* SlowMatcher is either a wrapped FastMatcher, <<"Fast">> \o f, or a
\* content-type matcher <<"MimeType", m>>.  An item of the iterator is a Cow:
\* <<"Borrowed", matcher>> or <<"Owned", matcher>>.
FastMatchers == {<<"FileExtension", "pdf">>, <<"FileExtension", "zip">>}

\* line 43: SlowMatcher::Fast(e.clone())
SlowFast(f) == <<"Fast">> \o f

SlowMatchers ==
    {SlowFast(f) : f \in FastMatchers} \cup {<<"MimeType", "application/zip">>}

\* the matcher a Cow item dereferences to
CowValue(c) == c[2]

\* (variant: the slow list is used whenever it is present)
get_matchers_ignoring_slow(fast, slow_opt, slow) ==
    IF slow_opt # None
    THEN [k \in 1..Len(slow_opt[1]) |-> <<"Borrowed", slow_opt[1][k]>>]
    ELSE [k \in 1..Len(fast) |-> <<"Owned", SlowFast(fast[k])>>]

\* lines 34-46: the items of the iterator get_matchers(slow) returns
get_matchers(fast, slow_opt, slow) ==
    IF slow /\ slow_opt # None
    THEN [k \in 1..Len(slow_opt[1]) |-> <<"Borrowed", slow_opt[1][k]>>]
    ELSE [k \in 1..Len(fast) |-> <<"Owned", SlowFast(fast[k])>>]

InitGM ==
    /\ fast_matchers \in SeqsUpTo(FastMatchers, MaxMatchers)
    /\ slow_matchers \in {None} \cup {Some(l) : l \in SeqsUpTo(SlowMatchers, MaxMatchers)}
    /\ gm_slow = FALSE
    /\ gm_ret = <<>>
    /\ gm_first = [b \in BOOLEAN |-> None]
    /\ gm_calls = 0

\* one call of get_matchers(slow), its iterator drained
GetMatchers ==
    /\ gm_calls < MaxGetCalls
    /\ \E slow \in BOOLEAN :
          LET items == get_matchers(fast_matchers, slow_matchers, slow)
          IN /\ gm_slow' = slow
             /\ gm_ret' = items
             /\ gm_first' = IF gm_first[slow] = None
                             THEN [gm_first EXCEPT ![slow] = Some(items)]
                             ELSE gm_first
    /\ gm_calls' = gm_calls + 1
    /\ UNCHANGED <<fast_matchers, slow_matchers, cwvars, selvars>>

GMIdle ==
    /\ fast_matchers = <<>>
    /\ slow_matchers = None
    /\ gm_slow = FALSE
    /\ gm_ret = <<>>
    /\ gm_first = [b \in BOOLEAN |-> None]
    /\ gm_calls = 0

\* ------------------------------------------------------- specifications
SelIdle ==
    /\ adapter_names = <<>>
    /\ i = 0
    /\ adapters = <<>>
    /\ subtractive = FALSE
    /\ adapters_map = <<>>
    /\ sel_pc = "idle"
    /\ sel_result = <<"none">>

CWIdle == InitCW /\ max_cache_size = 0

\* the CachingWriter under any sequence of write and flush calls, then finish
Init == InitCW /\ SelIdle /\ GMIdle
Next == Write \/ Flush \/ Finish
Spec == Init /\ [][Next]_vars

\* get_adapters_filtered applied to every bounded adapter_names
InitAdapters == InitSel /\ CWIdle /\ GMIdle
NextAdapters == SelBegin \/ SelIterate \/ SelReturn
SpecAdapters == InitAdapters /\ [][NextAdapters]_vars

\* get_matchers called repeatedly on every bounded AdapterMeta
InitMatchers == InitGM /\ CWIdle /\ SelIdle
NextMatchers == GetMatchers
SpecMatchers == InitMatchers /\ [][NextMatchers]_vars

C2_OverflowYieldsNoArtifact ==
    (pc = "done" /\ overflowed) => result = <<"Ok", Len(accepted), None>>

\* C2 witness: the overflow happened in an early write, more bytes were
\* written after it, and finish has returned.
C2_Witness ==
    /\ pc = "done" /\ overflowed /\ ~erred
    /\ fed < Len(accepted) /\ Len(accepted) >= 3
    /\ result = <<"Ok", Len(accepted), None>>

\* C3: writing B in any chunking, with no call failing and the encoder never
\* flushed, when the one-shot compression of B fits max_cache_size, finish
\* returns (len(B), artifact) with artifact = compress(B) and
\* decompress(artifact) = B; and whenever finish returns an artifact at all
\* after error-free calls, it decompresses to exactly the bytes written.
C3_RoundTrip ==
    (pc = "done" /\ ~erred) =>
        /\ (~flushed /\ Len(Compress(accepted)) <= max_cache_size) =>
              /\ result = <<"Ok", Len(accepted), Some(Compress(accepted))>>
              /\ Decompress(result[3][1]) = accepted
        /\ (result[1] = "Ok" /\ result[3] # None) =>
              Decompress(result[3][1]) = accepted

\* C3 witness: several write calls and an artifact of exactly
\* max_cache_size cells that holds two runs.
C3_Witness ==
    /\ pc = "done" /\ ~erred /\ ~flushed /\ calls >= 2
    /\ Len(accepted) >= 3
    /\ result[1] = "Ok" /\ result[3] # None
    /\ Len(result[3][1]) = max_cache_size
    /\ max_cache_size = 3

C5_FinishResult ==
    pc = "done" =>
        LET live == zstd_writer # None
            fits == live /\ Len(EncoderFinish(zstd_writer[1])) <= max_cache_size
        IN /\ result[1] \in {"Ok", "Err"}
           /\ result[1] = "Err" => live
           /\ result[1] = "Ok" =>
                /\ result[2] = bytes_written
                /\ (result[3] # None) <=> fits
                /\ result[3] # None =>
                      /\ result[3][1] = EncoderFinish(zstd_writer[1])
                      /\ Len(result[3][1]) <= max_cache_size

\* C5 witness: finish on a live encoder whose finished output is over the
\* budget although no write dropped it: (total, None).
C5_Witness ==
    /\ pc = "done" /\ zstd_writer # None /\ ~overflowed
    /\ Len(EncoderFinish(zstd_writer[1])) > max_cache_size
    /\ bytes_written >= 2
    /\ result = <<"Ok", bytes_written, None>>

\* C6 (as stated, already on runs in which no call has failed): after any
\* interleaving of write and flush calls a live encoder never coexists with
\* a compressed size above max_cache_size.
C6_LiveEncoderWithinBudget ==
    (~erred /\ zstd_writer # None) => Len(zstd_writer[1].vec) <= max_cache_size

\* C7: once the encoder is absent it stays absent, and no later call feeds
\* an encoder: a call made without encoder at most appends bytes to the
\* downstream writer and counts exactly those.
C7_DropIsOneWay ==
    [][zstd_writer = None =>
          /\ zstd_writer' = None
          /\ fed' = fed
          /\ Take(out', Len(out)) = out
          /\ bytes_written' = bytes_written + (Len(out') - Len(out))]_vars

\* C7 witness: a write after the drop was accepted by the downstream and
\* fed no encoder.
C7_Witness ==
    /\ zstd_writer = None /\ overflowed /\ ~erred
    /\ last.op = "write" /\ last.ret = <<"Ok", 2>> /\ last.len = 2
    /\ fed + 2 <= bytes_written

\* a step that is a write call, resp. a flush call
WriteStep == calls' = calls + 1 /\ last'.op = "write"
FlushStep == calls' = calls + 1 /\ last'.op = "flush"

\* C16 (as stated): every successful write(buf) forwards the whole of buf to
\* the downstream writer, nothing else.
C16_WriteForwardsWholeBuffer ==
    [][(WriteStep /\ last'.ret[1] = "Ok") =>
          /\ Take(out', Len(out)) = out
          /\ Len(out') = Len(out) + last'.len]_vars

\* C16 (amended): every successful write(buf), returning Ok(n), forwards
\* exactly the first n bytes of buf, the bytes it reports as accepted, to the
\* downstream writer, with n <= len(buf); encoder live, dropped, or dropped
\* in this very call.
C16_WriteForwardsAcceptedPrefix ==
    [][(WriteStep /\ last'.ret[1] = "Ok") =>
          /\ last'.ret[2] <= last'.len
          /\ Len(accepted') = Len(accepted) + last'.ret[2]
          /\ out' = out \o Drop(accepted', Len(accepted))]_vars

\* C16 witness: the write that dropped the encoder took one byte of a
\* two-byte buffer and returned Ok(1).
C16_Witness ==
    /\ zstd_writer = None /\ overflowed /\ ~erred
    /\ fed = Len(accepted)
    /\ last.op = "write" /\ last.ret = <<"Ok", 1>> /\ last.len = 2

\* C17: a write or flush call returns Err exactly when the encoder or the
\* downstream writer failed in it; the failing operation is not tried again
\* (after an encoder failure nothing reaches the downstream writer, after a
\* failed write_all the downstream has less than the data); and a call that
\* returns Err leaves bytes_written as it was.
C17_ErrorsPropagate ==
    [][(WriteStep \/ FlushStep) =>
          /\ (last'.fail # "none") <=> (last'.ret = <<"Err">>)
          /\ last'.ret = <<"Err">> => bytes_written' = bytes_written
          /\ last'.fail = "encoder" => out' = out /\ out_flushes' = out_flushes
          /\ (last'.fail = "out" /\ WriteStep) =>
                /\ Len(out') - Len(out) <= last'.len
                /\ last'.len > 0 => Len(out') - Len(out) < last'.len
                /\ fed' - fed <= last'.len]_vars

\* C17 witness: after two bytes were counted, a write failed in write_all
\* with part of its bytes already downstream.
C17_Witness ==
    /\ last.op = "write" /\ last.ret = <<"Err">> /\ last.fail = "out"
    /\ torn /\ bytes_written = 2 /\ Len(out) = 3

\* C18: flush flushes the live encoder, then the downstream writer; when the
\* encoder's flush fails the downstream writer is not flushed and Err is
\* returned; flush leaves bytes_written and the downstream bytes alone and
\* neither drops nor restores the encoder.
C18_FlushFrame ==
    [][FlushStep =>
          /\ bytes_written' = bytes_written
          /\ out' = out
          /\ (zstd_writer = None) <=> (zstd_writer' = None)
          /\ last'.fail = "encoder" =>
                /\ zstd_writer # None
                /\ out_flushes' = out_flushes
                /\ last'.ret = <<"Err">>
          /\ last'.fail # "encoder" =>
                /\ out_flushes' = out_flushes + 1
                /\ zstd_writer # None =>
                      /\ zstd_writer'[1].pend = <<>>
                      /\ zstd_writer'[1].zin = zstd_writer[1].zin
                      /\ Len(zstd_writer'[1].vec) =
                            Len(zstd_writer[1].vec)
                            + (IF zstd_writer[1].pend = <<>> THEN 0 ELSE 1)]_vars

\* C18 witness: the downstream flush failed after the live encoder had
\* already written its buffered run into the Vec.
C18_Witness ==
    /\ last.op = "flush" /\ last.fail = "out" /\ out_flushes = 1
    /\ zstd_writer # None /\ zstd_writer[1].pend = <<>>
    /\ Len(zstd_writer[1].vec) = 1 /\ bytes_written = 2

\* C19: while no call has returned Err and the encoder is live, the bytes
\* the encoder consumed are the bytes forwarded downstream, bytes_written of
\* them.
C19_CacheInStep ==
    (~erred /\ zstd_writer # None) =>
        /\ zstd_writer[1].zin = out
        /\ Len(out) = bytes_written

\* C19 witness: a live encoder after a flush and a write it took only in
\* part.
C19_Witness ==
    /\ ~erred /\ zstd_writer # None /\ flushed
    /\ last.op = "write" /\ last.ret = <<"Ok", 1>> /\ last.len = 2
    /\ Len(zstd_writer[1].zin) = 3

\* ================================================ adapter selection properties
\* the adapter a name-only token resolves to, over both default lists
Known == get_adapters[1] \o get_adapters[2]
Resolves(name) == \E k \in 1..Len(Known) : name = <<NameOf(Known[k])>>
Lookup(name) == Known[CHOOSE k \in 1..Len(Known) : name = <<NameOf(Known[k])>>]

\* the tokens with the first token's sign removed
Unsigned(names) == [k \in 1..Len(names) |-> IF k = 1 THEN Tail(names[k]) ELSE names[k]]

ExplicitInput ==
    /\ adapter_names # <<>>
    /\ ~StartsWith(adapter_names[1], "-")
    /\ ~StartsWith(adapter_names[1], "+")
SubtractiveInput == adapter_names # <<>> /\ StartsWith(adapter_names[1], "-")
AdditiveInput == adapter_names # <<>> /\ StartsWith(adapter_names[1], "+")

\* C8: explicit mode with every token resolving: the call returns exactly
\* the tokens mapped through the name lookup, in token order, duplicates
\* kept (so as many adapters as tokens, and no default that was not named).
C8_ExplicitIsTokenMap ==
    (/\ sel_pc = "done"
     /\ ExplicitInput
     /\ \A k \in 1..Len(adapter_names) : Resolves(adapter_names[k])) =>
        /\ sel_result =
              <<"Ok", [k \in 1..Len(adapter_names) |-> Lookup(adapter_names[k])]>>
        /\ Len(sel_result[2]) = Len(adapter_names)

\* C8 witness: an explicit list naming the same adapter twice, out of the
\* default order, has been returned.
C8_Witness ==
    /\ sel_pc = "done" /\ ExplicitInput /\ sel_result[1] = "Ok"
    /\ sel_result[2] = <<"SqliteAdapter", "FFmpegAdapter", "SqliteAdapter">>

\* C9: subtractive mode: after each successfully processed token the working
\* list is the default-enabled list without the adapters named so far, in
\* the default order and one shorter per token; the returned list is the
\* working list after the last token.
C9_SubtractiveRemoves ==
    (/\ sel_pc \in {"loop", "return", "done"}
     /\ SubtractiveInput
     /\ i >= 1
     /\ sel_result[1] # "Err") =>
        LET named == {Unsigned(adapter_names)[k] : k \in 1..i}
            Kept(a) == <<NameOf(a)>> \notin named
        IN /\ subtractive
           /\ adapters = SelectSeq(get_adapters[1], Kept)
           /\ Len(adapters) = Len(get_adapters[1]) - i
           /\ sel_pc = "done" => sel_result = <<"Ok", adapters>> /\ i = Len(adapter_names)

\* C9 witness: two adapters, one from the middle of the default list, have
\* been removed and the rest returned in the default order.
C9_Witness ==
    /\ sel_pc = "done" /\ SubtractiveInput
    /\ sel_result =
          <<"Ok", <<"FFmpegAdapter", "PandocAdapter", "PopplerAdapter", "TarAdapter">>>>

\* C10: additive mode with every token resolving: the call returns the whole
\* default-enabled list in its order, followed by the adapters of the tokens
\* in token order, nothing deduplicated.
C10_AdditiveAppends ==
    (/\ sel_pc = "done"
     /\ AdditiveInput
     /\ \A k \in 1..Len(adapter_names) : Resolves(Unsigned(adapter_names)[k])) =>
        sel_result =
           <<"Ok", get_adapters[1] \o
                   [k \in 1..Len(adapter_names) |-> Lookup(Unsigned(adapter_names)[k])]>>

\* C10 witness: "+zip" and a second token have been added after the six
\* defaults, zip now being listed twice.
C10_Witness ==
    /\ sel_pc = "done" /\ AdditiveInput /\ sel_result[1] = "Ok"
    /\ Len(sel_result[2]) = Len(get_adapters[1]) + 2
    /\ sel_result[2][4] = "ZipAdapter" /\ sel_result[2][7] = "ZipAdapter"

\* the names the loop works with: the tokens, the first one without its
\* sign when it has one
Names ==
    IF ExplicitInput THEN adapter_names ELSE Unsigned(adapter_names)

\* the first position of Names that does not resolve (0 when all do)
FirstUnresolved ==
    IF \E k \in 1..Len(Names) : ~Resolves(Names[k])
    THEN CHOOSE k \in 1..Len(Names) :
            /\ ~Resolves(Names[k])
            /\ \A m \in 1..(k - 1) : Resolves(Names[m])
    ELSE 0

\* C11 (as stated): additive or explicit mode with a token that does not
\* resolve: the call fails with the "unknown adapter" error naming exactly
\* that token, as passed, and returns no list.
C11_UnknownNamesExactToken ==
    (/\ sel_pc = "done"
     /\ ExplicitInput \/ AdditiveInput
     /\ FirstUnresolved # 0) =>
        sel_result = <<"Err", "Unknown adapter", adapter_names[FirstUnresolved]>>

\* C11 (amended): additive or explicit mode with a token that does not
\* resolve: the call fails with the "unknown adapter" error naming the first
\* such token, the first token of additive mode being named without its
\* leading '+'; the result is that error alone, no list.
C11_UnknownNamesStrippedToken ==
    (/\ sel_pc = "done"
     /\ ExplicitInput \/ AdditiveInput
     /\ FirstUnresolved # 0) =>
        /\ sel_result = <<"Err", "Unknown adapter", Names[FirstUnresolved]>>
        /\ i = FirstUnresolved - 1

\* C11 witness: additive mode, two valid tokens pushed after the defaults,
\* then an unknown third token: the error, and nothing of the eight
\* adapters collected so far.
C11_Witness ==
    /\ sel_pc = "done" /\ AdditiveInput /\ i = 2 /\ Len(adapters) = 8
    /\ sel_result = <<"Err", "Unknown adapter", <<"nope">>>>

\* the first position of Names that is not in the working list when its turn
\* comes: not the name of a default-enabled adapter, or named before (0 when
\* there is none)
Removable(k) ==
    /\ \E j \in 1..Len(get_adapters[1]) : Names[k] = <<NameOf(get_adapters[1][j])>>
    /\ \A m \in 1..(k - 1) : Names[m] # Names[k]
FirstNotRemovable ==
    IF \E k \in 1..Len(Names) : ~Removable(k)
    THEN CHOOSE k \in 1..Len(Names) :
            /\ ~Removable(k)
            /\ \A m \in 1..(k - 1) : Removable(m)
    ELSE 0

\* C12: subtractive mode with a token that names no adapter of the current
\* working list (an unknown name, or one an earlier token removed): the call
\* fails with the "not in list" error naming that token.
C12_RemoveAbsentFails ==
    (/\ sel_pc = "done"
     /\ SubtractiveInput
     /\ FirstNotRemovable # 0) =>
        /\ sel_result = <<"Err", "Could not remove: Not in list", Names[FirstNotRemovable]>>
        /\ i = FirstNotRemovable - 1

\* C12 witness: "-zip" removed zip, then a second "zip" failed.
C12_Witness ==
    /\ sel_pc = "done" /\ i = 1
    /\ adapter_names[1] = <<"-", "zip">>
    /\ sel_result = <<"Err", "Could not remove: Not in list", <<"zip">>>>

\* C13: called with no tokens, get_adapters_filtered returns Ok with the
\* default-enabled list of get_adapters: the six adapters in their order.
C13_EmptyIsDefault ==
    (sel_pc = "done" /\ adapter_names = <<>>) =>
        /\ sel_result = <<"Ok", get_adapters[1]>>
        /\ sel_result[2] = <<"FFmpegAdapter", "PandocAdapter", "PopplerAdapter",
                             "ZipAdapter", "TarAdapter", "SqliteAdapter">>

\* C13 witness: the call with no tokens has returned six adapters.
C13_Witness ==
    /\ sel_pc = "done" /\ adapter_names = <<>>
    /\ sel_result[1] = "Ok" /\ Len(sel_result[2]) = 6

\* whether a token starts with a sign, and the first later token that does
Signed(tok) == StartsWith(tok, "-") \/ StartsWith(tok, "+")
FirstLaterSigned ==
    CHOOSE k \in 2..Len(adapter_names) :
        /\ Signed(adapter_names[k])
        /\ \A m \in 2..(k - 1) : ~Signed(adapter_names[m])

\* C15: a '-' or '+' at the start of a token other than the first stays part
\* of the name: in every mode the call fails, the loop never gets past that
\* token, and when it reaches it the error names it with its sign.
C15_LaterSignIsLiteral ==
    (/\ sel_pc = "done"
     /\ \E k \in 2..Len(adapter_names) : Signed(adapter_names[k])) =>
        /\ sel_result[1] = "Err"
        /\ i < FirstLaterSigned
        /\ i = FirstLaterSigned - 1 =>
              sel_result[3] = adapter_names[FirstLaterSigned]

\* C15 witness: in subtractive mode "-zip" was removed and a second "-sqlite"
\* was looked up with its sign and not found.
C15_Witness ==
    /\ sel_pc = "done" /\ subtractive /\ i = 1
    /\ adapter_names[1] = <<"-", "zip">>
    /\ sel_result = <<"Err", "Could not remove: Not in list", <<"-", "sqlite">>>>

\* ================================================ get_matchers properties
\* the fast matchers, each wrapped as a slow matcher, in list order
WrappedFast == [k \in 1..Len(fast_matchers) |-> <<"Fast">> \o fast_matchers[k]]
Yielded == [k \in 1..Len(gm_ret) |-> CowValue(gm_ret[k])]

\* C14: get_matchers(false) yields the fast matchers, each wrapped, in order
\* (as many as there are fast matchers); get_matchers(true) yields the slow
\* list itself when there is one, empty or not, and otherwise what
\* get_matchers(false) yields; a repeated call yields what the first call
\* with that argument yielded.
C14_GetMatchers ==
    gm_calls > 0 =>
        /\ ~gm_slow => Yielded = WrappedFast /\ Len(gm_ret) = Len(fast_matchers)
        /\ (gm_slow /\ slow_matchers # None) => Yielded = slow_matchers[1]
        /\ (gm_slow /\ slow_matchers = None) => Yielded = WrappedFast
        /\ gm_first[gm_slow] = Some(gm_ret)

\* C14 witness: an adapter with fast matchers and an empty slow list was
\* asked for its slow matchers after having been asked before, and yielded
\* nothing.
C14_Witness ==
    /\ gm_calls >= 2 /\ gm_slow /\ gm_first[FALSE] # None
    /\ Len(fast_matchers) = 2 /\ slow_matchers = Some(<<>>)
    /\ gm_ret = <<>>

====
